---- MODULE Spec2Model ----
(***************************************************************************)
(* Model of src/context.rs: the context cons list generated by             *)
(* new_context_type!, its Has / Pop / Push implementations, the            *)
(* make_context! and make_context_ty! macros, and the service chain of     *)
(* context_tests::send_request.                                            *)
(*                                                                         *)
(* A container value is the nested struct the macro defines:               *)
(*   [head |-> item, tail |-> container]   or   EmpContext.                *)
(* An item is [ty |-> its static type, val |-> its value].  A container    *)
(* type is the same nesting with type names as heads.  Trait resolution    *)
(* (Provides) works on the list of impls that the macro expansion emitted. *)
(***************************************************************************)
EXTENDS Integers, Sequences, FiniteSets, TLC

VARIABLES decl, pending, impls, pc, ctx, last, resp

vars == <<decl, pending, impls, pc, ctx, last, resp>>

\* ---------------------------------------------------------------- bounds
\* Deepest container the model builds.
MaxDepth == 4
\* The values of an XSpanIdString are 0..MaxVal.
MaxVal == 1

\* ----------------------------------------------------------------- types
\* The item types: the two unit structs of the tests and the string wrapper
\* of the default context type.
Types == {"ContextItem1", "ContextItem2", "XSpanIdString"}

\* The value of a unit struct (ContextItem1 {}, ContextItem2 {}).
Unit == 0

ValsOf(t) == IF t = "XSpanIdString" THEN 0..MaxVal ELSE {Unit}

\* The type list of the tests' MyContext.
TestDecl == <<"ContextItem1", "ContextItem2">>

\* The type lists handed to new_context_type!: pairwise distinct types, one,
\* two or three of them (the default Context lists XSpanIdString first).
DeclLists ==
    { <<"XSpanIdString">>,
      TestDecl,
      <<"XSpanIdString", "ContextItem1", "ContextItem2">> }

\* Names of the generic parameters of the generated impls.
Generic == {"T", "U", "C"}

\* ------------------------------------------------------------ containers
\* struct $empty_context_name;
EmpContext == [empty |-> TRUE]

\* $context_name { head, tail }
Node(h, t) == [head |-> h, tail |-> t]

Item(t, v) == [ty |-> t, val |-> v]

Items == UNION {{Item(t, v) : v \in ValsOf(t)} : t \in Types}

\* The static type of a container value.
RECURSIVE TypeOf(_)
TypeOf(c) ==
    IF c = EmpContext THEN EmpContext
    ELSE Node(c.head.ty, TypeOf(c.tail))

\* The slots of a container (value or type), outermost first.
RECURSIVE Slots(_)
Slots(c) ==
    IF c = EmpContext THEN <<>>
    ELSE <<c.head>> \o Slots(c.tail)

Depth(c) == Len(Slots(c))

\* ------------------------------------------------------- macro expansion
Invocation(r, ts) == [rule |-> r, types |-> ts]

ImplRec(tr, self, item, head, bound) ==
    [trait |-> tr, self |-> self, item |-> item, head |-> head, bound |-> bound]

\* The items the first arm of new_context_type! emits itself.
BaseImpls ==
    << ImplRec("Push", "empty", "U", "-", FALSE),
       ImplRec("Has",  "node",  "T", "T", FALSE),
       ImplRec("Pop",  "node",  "T", "T", FALSE),
       ImplRec("Push", "node",  "U", "T", FALSE) >>

\* A repetition whose impls propagate through a head of any type.
HelperBlockAnyHead(type, t) ==
    << ImplRec("Has", "node", type, "U", TRUE),
       ImplRec("Has", "node", t, "U", TRUE),
       ImplRec("Pop", "node", type, "U", TRUE),
       ImplRec("Pop", "node", t, "U", TRUE) >>

\* A repetition that propagates $type through $types only.
HelperBlockOneWay(type, t) ==
    << ImplRec("Has", "node", type, t, TRUE),
       ImplRec("Pop", "node", type, t, TRUE) >>

\* The four impls one repetition of the extend_has_helper arm emits.
HelperBlock(type, t) ==
    << ImplRec("Has", "node", type, t, TRUE),
       ImplRec("Has", "node", t, type, TRUE),
       ImplRec("Pop", "node", type, t, TRUE),
       ImplRec("Pop", "node", t, type, TRUE) >>

\* $( ... )+ over $types.
RECURSIVE HelperImpls(_, _)
HelperImpls(type, types) ==
    IF types = <<>> THEN <<>>
    ELSE HelperBlock(type, Head(types)) \o HelperImpls(type, Tail(types))

NextPc(p) == IF p = <<>> THEN "run" ELSE "expand"

\* ($context_name, $empty_context_name, $($types),+) => structs, base impls,
\* and the call of the extend_has arm.
ArmTop ==
    /\ pc = "expand"
    /\ pending # <<>>
    /\ Head(pending).rule = "new_context_type"
    /\ Len(Head(pending).types) >= 1
    /\ impls' = impls \o BaseImpls
    /\ pending' = <<Invocation("extend_has", Head(pending).types)>> \o Tail(pending)
    /\ pc' = NextPc(pending')
    /\ UNCHANGED <<decl, ctx, last, resp>>

\* The extend_has arm without its recursive call on $tail.
ArmExtendHasOnce ==
    /\ pc = "expand"
    /\ pending # <<>>
    /\ Head(pending).rule = "extend_has"
    /\ Len(Head(pending).types) >= 2
    /\ pending' = << Invocation("extend_has_helper", Head(pending).types) >>
                  \o Tail(pending)
    /\ pc' = NextPc(pending')
    /\ UNCHANGED <<decl, impls, ctx, last, resp>>

\* (impl extend_has ..., $head, $($tail),+) => helper call, then recursion.
ArmExtendHas ==
    /\ pc = "expand"
    /\ pending # <<>>
    /\ Head(pending).rule = "extend_has"
    /\ Len(Head(pending).types) >= 2
    /\ pending' = << Invocation("extend_has_helper", Head(pending).types),
                     Invocation("extend_has", Tail(Head(pending).types)) >>
                  \o Tail(pending)
    /\ pc' = NextPc(pending')
    /\ UNCHANGED <<decl, impls, ctx, last, resp>>

\* (impl extend_has ..., $head) => {}
ArmExtendHasLast ==
    /\ pc = "expand"
    /\ pending # <<>>
    /\ Head(pending).rule = "extend_has"
    /\ Len(Head(pending).types) = 1
    /\ pending' = Tail(pending)
    /\ pc' = NextPc(pending')
    /\ UNCHANGED <<decl, impls, ctx, last, resp>>

\* (impl extend_has_helper ..., $type, $($types),+) => the impl blocks.
ArmHelper ==
    /\ pc = "expand"
    /\ pending # <<>>
    /\ Head(pending).rule = "extend_has_helper"
    /\ Len(Head(pending).types) >= 2
    /\ impls' = impls \o HelperImpls(Head(Head(pending).types),
                                     Tail(Head(pending).types))
    /\ pending' = Tail(pending)
    /\ pc' = NextPc(pending')
    /\ UNCHANGED <<decl, ctx, last, resp>>

\* -------------------------------------------------------- trait resolution
\* Whether an impl's Self head and trait parameter unify with (H, T).
Matches(im, H, T) ==
    /\ im.head \notin Generic => im.head = H
    /\ im.item \notin Generic => im.item = T
    /\ (im.head \in Generic /\ im.head = im.item) => H = T

\* Resolution that takes an impl without checking its where clause.
ProvidesUnbounded(trait, shape, T) ==
    \E i \in DOMAIN impls :
        /\ impls[i].trait = trait
        /\ IF shape = EmpContext
           THEN impls[i].self = "empty"
           ELSE /\ impls[i].self = "node"
                /\ Matches(impls[i], shape.head, T)

\* Whether container type `shape` implements trait<T>: some emitted impl
\* applies, and its where clause (the bound on the tail) is met.
RECURSIVE Provides(_, _, _)
Provides(trait, shape, T) ==
    \E i \in DOMAIN impls :
        /\ impls[i].trait = trait
        /\ IF shape = EmpContext
           THEN impls[i].self = "empty"
           ELSE /\ impls[i].self = "node"
                /\ Matches(impls[i], shape.head, T)
                /\ impls[i].bound => Provides(trait, shape.tail, T)

\* The impl whose method body runs for trait<T> on a node headed by H.
Dispatch(trait, H, T) ==
    IF \E i \in DOMAIN impls :
           /\ impls[i].trait = trait /\ impls[i].self = "node"
           /\ ~impls[i].bound /\ Matches(impls[i], H, T)
    THEN "direct"
    ELSE IF \E i \in DOMAIN impls :
                /\ impls[i].trait = trait /\ impls[i].self = "node"
                /\ impls[i].bound /\ Matches(impls[i], H, T)
         THEN "propagate"
         ELSE "none"

\* --------------------------------------------------------- Has, Pop, Push
\* What a call yields when no impl exists to run it (it does not compile).
NoImpl == [noimpl |-> TRUE]

NoRef == 0

NoVal == 0 - 1

\* Push for a node that starts its tail afresh, as the impl for the empty
\* context does.
PushLosesTail(c, item) == Node(item, EmpContext)

\* Push::push, for the empty context and for a node.
Push(c, item) ==
    IF c = EmpContext
    THEN Node(item, EmpContext)
    ELSE Node(item, c)

\* A get that prefers the tail's slot of type T to the head.
RECURSIVE GetOldest(_, _)
GetOldest(c, T) ==
    IF c = EmpContext THEN NoRef
    ELSE LET r == GetOldest(c.tail, T)
         IN  IF r # NoRef THEN r + 1
             ELSE IF c.head.ty = T THEN 1 ELSE NoRef

\* Has::get: the slot the returned reference points to (1 is the head of c,
\* n + 1 is slot n of the tail).
RECURSIVE Get(_, _)
Get(c, T) ==
    IF c = EmpContext THEN NoRef
    ELSE IF Dispatch("Has", c.head.ty, T) = "direct" THEN 1
    ELSE IF Dispatch("Has", c.head.ty, T) = "propagate"
         THEN (LET r == Get(c.tail, T) IN IF r = NoRef THEN NoRef ELSE r + 1)
         ELSE NoRef

\* Has::get_mut: the slot the returned mutable reference points to.
RECURSIVE GetMut(_, _)
GetMut(c, T) ==
    IF c = EmpContext THEN NoRef
    ELSE IF Dispatch("Has", c.head.ty, T) = "direct" THEN 1
    ELSE IF Dispatch("Has", c.head.ty, T) = "propagate"
         THEN (LET r == GetMut(c.tail, T) IN IF r = NoRef THEN NoRef ELSE r + 1)
         ELSE NoRef

\* The value behind a reference to slot r of c.
RECURSIVE Deref(_, _)
Deref(c, r) ==
    IF r = NoRef \/ c = EmpContext THEN NoVal
    ELSE IF r = 1 THEN c.head.val
    ELSE Deref(c.tail, r - 1)

\* A set that writes every slot of type T it passes.
RECURSIVE SetEvery(_, _, _)
SetEvery(c, T, v) ==
    IF c = EmpContext THEN EmpContext
    ELSE IF c.head.ty = T
         THEN Node(Item(T, v), SetEvery(c.tail, T, v))
         ELSE Node(c.head, SetEvery(c.tail, T, v))

\* Has::set: the container after the call.
RECURSIVE Set(_, _, _)
Set(c, T, v) ==
    IF c = EmpContext THEN NoImpl
    ELSE IF Dispatch("Has", c.head.ty, T) = "direct"
         THEN [c EXCEPT !.head = Item(T, v)]
    ELSE IF Dispatch("Has", c.head.ty, T) = "propagate"
         THEN [c EXCEPT !.tail = Set(c.tail, T, v)]
         ELSE NoImpl

\* A pop whose propagating impl returns the tail's remainder as it is.
RECURSIVE PopDropsHead(_, _)
PopDropsHead(c, T) ==
    IF c = EmpContext THEN <<NoVal, NoImpl>>
    ELSE IF c.head.ty = T THEN <<c.head.val, c.tail>>
    ELSE PopDropsHead(c.tail, T)

\* Pop::pop: <<the value, the remainder>>.
RECURSIVE Pop(_, _)
Pop(c, T) ==
    IF c = EmpContext THEN <<NoVal, NoImpl>>
    ELSE IF Dispatch("Pop", c.head.ty, T) = "direct"
         THEN <<c.head.val, c.tail>>
    ELSE IF Dispatch("Pop", c.head.ty, T) = "propagate"
         THEN (LET r == Pop(c.tail, T) IN <<r[1], Node(c.head, r[2])>>)
         ELSE <<NoVal, NoImpl>>

\* Pop::Result: the type of the remainder.
RECURSIVE PopResult(_, _)
PopResult(shape, T) ==
    IF shape = EmpContext THEN NoImpl
    ELSE IF Dispatch("Pop", shape.head, T) = "direct" THEN shape.tail
    ELSE IF Dispatch("Pop", shape.head, T) = "propagate"
         THEN Node(shape.head, PopResult(shape.tail, T))
         ELSE NoImpl

\* A make_context! that takes its values innermost first.
RECURSIVE MakeContextInnermostFirst(_, _)
MakeContextInnermostFirst(values, trailing) ==
    IF values # <<>>
    THEN Node(values[Len(values)],
              MakeContextInnermostFirst(SubSeq(values, 1, Len(values) - 1), FALSE))
    ELSE EmpContext

\* make_context!: the values outermost first; `trailing` says whether the
\* invocation ends in a comma.  The recursive invocation is written
\* `..., $($values),*)`: it ends in a comma exactly when no value is left.
RECURSIVE MakeContext(_, _)
MakeContext(values, trailing) ==
    IF values # <<>>
    THEN Push(MakeContext(Tail(values), Tail(values) = <<>>), Head(values))
    ELSE EmpContext

\* make_context_ty!: the types outermost first.
RECURSIVE MakeContextTy(_, _)
MakeContextTy(types, trailing) ==
    IF types # <<>>
    THEN Node(Head(types), MakeContextTy(Tail(types), Tail(types) = <<>>))
    ELSE EmpContext

\* ------------------------------------------------------------- operations
Record(op, ty, val, ref, pre, args, fresh, trailing) ==
    [op |-> op, ty |-> ty, val |-> val, ref |-> ref, pre |-> pre,
     args |-> args, fresh |-> fresh, trailing |-> trailing]

NoOp == Record("none", "-", 0, NoRef, EmpContext, <<>>, FALSE, FALSE)

ArgLists == UNION {[1..n -> Items] : n \in 0..MaxDepth}

\* A stage pushes an item: context.push(item).
PushOp ==
    /\ pc = "run"
    /\ Depth(ctx) < MaxDepth
    /\ \E x \in Items :
        /\ ctx' = Push(ctx, x)
        /\ last' = Record("push", x.ty, x.val, NoRef, ctx, <<>>, FALSE, FALSE)
    /\ UNCHANGED <<decl, pending, impls, pc, resp>>

\* A stage reads an item: Has::<T>::get(&context).
GetOp ==
    /\ pc = "run"
    /\ \E T \in Types :
        /\ Provides("Has", TypeOf(ctx), T)
        /\ last' = Record("get", T, Deref(ctx, Get(ctx, T)), Get(ctx, T),
                          ctx, <<>>, FALSE, FALSE)
    /\ UNCHANGED <<decl, pending, impls, pc, ctx, resp>>

\* A stage borrows an item mutably: Has::<T>::get_mut(&mut context).
GetMutOp ==
    /\ pc = "run"
    /\ \E T \in Types :
        /\ Provides("Has", TypeOf(ctx), T)
        /\ last' = Record("get_mut", T, Deref(ctx, GetMut(ctx, T)),
                          GetMut(ctx, T), ctx, <<>>, FALSE, FALSE)
    /\ UNCHANGED <<decl, pending, impls, pc, ctx, resp>>

\* A stage replaces an item: context.set(value).
SetOp ==
    /\ pc = "run"
    /\ \E T \in Types :
       \E v \in ValsOf(T) :
        /\ Provides("Has", TypeOf(ctx), T)
        /\ ctx' = Set(ctx, T, v)
        /\ last' = Record("set", T, v, NoRef, ctx, <<>>, FALSE, FALSE)
    /\ UNCHANGED <<decl, pending, impls, pc, resp>>

\* A stage removes an item: let (item, context) = context.pop().
PopOp ==
    /\ pc = "run"
    /\ \E T \in Types :
        /\ Provides("Pop", TypeOf(ctx), T)
        /\ ctx' = Pop(ctx, T)[2]
        /\ last' = Record("pop", T, Pop(ctx, T)[1], NoRef, ctx, <<>>,
                          last.op = "push" /\ last.ty = T, FALSE)
    /\ UNCHANGED <<decl, pending, impls, pc, resp>>

\* A context is built with make_context!(..., v1, ..., vn) or (..., vn,):
\* the expansion starts from $empty_context_name::default().
MakeContextOp ==
    /\ pc = "run"
    /\ ctx = EmpContext
    /\ \E values \in ArgLists, trailing \in BOOLEAN :
        /\ ctx' = MakeContext(values, trailing)
        /\ last' = Record("make", "-", 0, NoRef, EmpContext, values, FALSE, trailing)
    /\ UNCHANGED <<decl, pending, impls, pc, resp>>

\* ------------------------------------------------- the chain of the tests
\* OuterService::call: C::default().push(ContextItem1 {}), then the inner call.
OuterCall ==
    /\ pc \in {"run", "done"}
    /\ decl = TestDecl
    /\ ctx' = Push(EmpContext, Item("ContextItem1", Unit))
    /\ last' = Record("push", "ContextItem1", Unit, NoRef, EmpContext, <<>>, FALSE, FALSE)
    /\ pc' = "middle"
    /\ resp' = "none"
    /\ UNCHANGED <<decl, pending, impls>>

\* A middle stage that pushes ContextItem2 and leaves ContextItem1 in place.
MiddleCallKeepsItem1 ==
    /\ pc = "middle"
    /\ ctx' = Push(ctx, Item("ContextItem2", Unit))
    /\ last' = Record("push", "ContextItem2", Unit, NoRef, ctx, <<>>, FALSE, FALSE)
    /\ pc' = "inner"
    /\ UNCHANGED <<decl, pending, impls, resp>>

\* MiddleService::call: pop ContextItem1, push ContextItem2, then the inner call.
MiddleCall ==
    /\ pc = "middle"
    /\ Provides("Pop", TypeOf(ctx), "ContextItem1")
    /\ Provides("Push", PopResult(TypeOf(ctx), "ContextItem1"), "ContextItem2")
    /\ ctx' = Push(Pop(ctx, "ContextItem1")[2], Item("ContextItem2", Unit))
    /\ last' = Record("push", "ContextItem2", Unit, NoRef,
                      Pop(ctx, "ContextItem1")[2], <<>>, FALSE, FALSE)
    /\ pc' = "inner"
    /\ UNCHANGED <<decl, pending, impls, resp>>

\* InnerService::call: get ContextItem2, answer ok(Response::new()).
InnerCall ==
    /\ pc = "inner"
    /\ Provides("Has", TypeOf(ctx), "ContextItem2")
    /\ last' = Record("get", "ContextItem2", Deref(ctx, Get(ctx, "ContextItem2")),
                      Get(ctx, "ContextItem2"), ctx, <<>>, FALSE, FALSE)
    /\ pc' = "done"
    /\ resp' = "ok"
    /\ UNCHANGED <<decl, pending, impls, ctx>>

\* ---------------------------------------------------------- specification
Init ==
    /\ decl \in DeclLists
    /\ pending = <<Invocation("new_context_type", decl)>>
    /\ impls = <<>>
    /\ pc = "expand"
    /\ ctx = EmpContext
    /\ last = NoOp
    /\ resp = "none"

Next ==
    \/ ArmTop
    \/ ArmExtendHas
    \/ ArmExtendHasLast
    \/ ArmHelper
    \/ PushOp
    \/ GetOp
    \/ GetMutOp
    \/ SetOp
    \/ PopOp
    \/ MakeContextOp
    \/ OuterCall
    \/ MiddleCall
    \/ InnerCall

Spec == Init /\ [][Next]_vars

\* The chain's scheduling: a call that was made runs to its end.
FairSpec == Spec /\ WF_vars(MiddleCall) /\ WF_vars(InnerCall)

\* ------------------------------------------------- vocabulary of the claims
DeclSet == {decl[i] : i \in DOMAIN decl}

\* A container with no placeholder of a call that had no impl to run.
RECURSIVE WellFormed(_)
WellFormed(c) ==
    \/ c = EmpContext
    \/ /\ DOMAIN c = {"head", "tail"}
       /\ WellFormed(c.tail)

TypesIn(s) == {s[i].ty : i \in DOMAIN s}

\* The positions of the slots of type T, and the outermost of them.
IdxOf(s, T) == {i \in DOMAIN s : s[i].ty = T}

FirstIdx(s, T) == CHOOSE i \in IdxOf(s, T) : \A j \in IdxOf(s, T) : i <= j

SecondIdx(s, T) ==
    CHOOSE i \in IdxOf(s, T) \ {FirstIdx(s, T)} :
        \A j \in IdxOf(s, T) \ {FirstIdx(s, T)} : i <= j

\* s without its slot k, the others in their order.
Remove(s, k) == [i \in 1..(Len(s) - 1) |-> IF i < k THEN s[i] ELSE s[i + 1]]

DistinctTypes(s) == \A i, j \in DOMAIN s : s[i].ty = s[j].ty => i = j

AllDeclared(s) == TypesIn(s) \subseteq DeclSet

\* ----------------------------------------------------------------- claims
\* C1: push/pop inverse law.  After a push of x : T onto any container c
\* (empty or not, T declared or not) pop for T is provided, and a pop of T
\* that follows the push returns x and leaves exactly c.
PushPopInverse ==
    /\ [](last.op = "push" => Provides("Pop", TypeOf(ctx), last.ty))
    /\ [][(last.op = "push" /\ last'.op = "pop" /\ last'.ty = last.ty)
            => (last'.val = last.val /\ ctx' = last.pre)]_vars

\* A pop that undid the push before it, below a non-empty remainder.
PushPopInverseWitness ==
    /\ last.op = "pop"
    /\ last.fresh
    /\ Depth(ctx) >= 2
    /\ last.ty \notin DeclSet

\* C2: order-independence.  In a container of pairwise distinct declared
\* types, whatever the order they were pushed in, get is provided for the
\* type of every slot and refers to that slot at whatever depth it is; a get
\* that ran returned the value of the slot of its type.
OrderIndependence ==
    /\ (pc = "run" /\ DistinctTypes(Slots(ctx)) /\ AllDeclared(Slots(ctx)))
        => \A i \in DOMAIN Slots(ctx) :
            /\ Provides("Has", TypeOf(ctx), Slots(ctx)[i].ty)
            /\ Get(ctx, Slots(ctx)[i].ty) = i
            /\ Deref(ctx, Get(ctx, Slots(ctx)[i].ty)) = Slots(ctx)[i].val
    /\ (last.op = "get" /\ DistinctTypes(Slots(last.pre)) /\ AllDeclared(Slots(last.pre)))
        => \E i \in DOMAIN Slots(last.pre) :
            /\ Slots(last.pre)[i].ty = last.ty
            /\ last.ref = i
            /\ last.val = Slots(last.pre)[i].val

\* A get that found its item beneath two heads of the other declared types.
OrderIndependenceWitness ==
    /\ last.op = "get"
    /\ pc = "run"
    /\ Depth(ctx) = 3
    /\ DistinctTypes(Slots(ctx))
    /\ AllDeclared(Slots(ctx))
    /\ last.ref = 3
    /\ last.ty = "ContextItem1"
    /\ ctx.head.ty = "XSpanIdString"

\* The shadowing case: c holds at least two slots of the declared type T,
\* and every other slot above the second of them is of a declared type.
Shadowed(c, T) ==
    /\ T \in DeclSet
    /\ Cardinality(IdxOf(Slots(c), T)) >= 2
    /\ \A j \in 1..SecondIdx(Slots(c), T) : Slots(c)[j].ty \in DeclSet

\* What get and pop do in the shadowing case: x2 is the outermost slot of
\* type T, x1 the next one.
ShadowLaw(c, T) ==
    LET s  == Slots(c)
        i2 == FirstIdx(s, T)
        i1 == SecondIdx(s, T)
        rest == Pop(c, T)[2]
    IN  /\ Provides("Has", TypeOf(c), T)
        /\ Provides("Pop", TypeOf(c), T)
        /\ Get(c, T) = i2
        /\ GetMut(c, T) = i2
        /\ Pop(c, T)[1] = s[i2].val
        /\ Slots(rest) = Remove(s, i2)
        /\ Provides("Has", TypeOf(rest), T)
        /\ Provides("Pop", TypeOf(rest), T)
        /\ Get(rest, T) = i1 - 1
        /\ Deref(rest, Get(rest, T)) = s[i1].val
        /\ Pop(rest, T)[1] = s[i1].val

\* C3: shadowing.  With two slots x1, x2 of a declared type T (x2 the outer,
\* pushed later) and declared items between or above them, get and pop for T
\* resolve to x2, never to x1; once x2 is popped they resolve to x1.
Shadowing ==
    /\ pc = "run" => \A T \in Types : Shadowed(ctx, T) => ShadowLaw(ctx, T)
    /\ (last.op = "pop" /\ Shadowed(last.pre, last.ty))
        => /\ last.val = Slots(last.pre)[FirstIdx(Slots(last.pre), last.ty)].val
           /\ Deref(ctx, Get(ctx, last.ty))
                = Slots(last.pre)[SecondIdx(Slots(last.pre), last.ty)].val
    /\ (last.op \in {"get", "get_mut"} /\ Shadowed(last.pre, last.ty))
        => last.ref = FirstIdx(Slots(last.pre), last.ty)

\* A pop of x2 = 1 that had a declared item above it and one between it and
\* x1 = 0, which the remainder still holds.
ShadowingWitness ==
    /\ last.op = "pop"
    /\ last.ty = "XSpanIdString"
    /\ Shadowed(last.pre, "XSpanIdString")
    /\ FirstIdx(Slots(last.pre), "XSpanIdString") = 2
    /\ SecondIdx(Slots(last.pre), "XSpanIdString") = 4
    /\ last.val = 1
    /\ Slots(ctx)[3] = Item("XSpanIdString", 0)

\* C4: pop of a nested item.  A pop for T returns the value of the outermost
\* slot of type T and the container without that one slot: one node fewer,
\* all other slots with their values in their order, of the type Pop::Result
\* names.  Pop is provided for the type of every slot of a container of
\* declared types.
PopNested ==
    /\ last.op = "pop"
        => LET s == Slots(last.pre)
               k == FirstIdx(s, last.ty)
           IN  /\ IdxOf(s, last.ty) # {}
               /\ last.val = s[k].val
               /\ Slots(ctx) = Remove(s, k)
               /\ Depth(ctx) = Depth(last.pre) - 1
               /\ TypeOf(ctx) = PopResult(TypeOf(last.pre), last.ty)
    /\ (pc = "run" /\ AllDeclared(Slots(ctx)))
        => \A T \in TypesIn(Slots(ctx)) : Provides("Pop", TypeOf(ctx), T)

\* A pop that took the slot at depth 2 out of a container of four slots.
PopNestedWitness ==
    /\ last.op = "pop"
    /\ Depth(last.pre) = 4
    /\ FirstIdx(Slots(last.pre), last.ty) = 3
    /\ Slots(ctx)[3].ty # last.ty

\* C5: no runtime failure.  The empty context provides push only; push is
\* provided for every container and type; wherever get, get_mut, set or pop
\* is provided for T the call ends at a slot of type T and never at the empty
\* context; no operation that ran had a "not found" outcome.
NoRuntimeFailure ==
    pc # "expand" =>
        /\ WellFormed(ctx)
        /\ last.val # NoVal
        /\ last.op \in {"get", "get_mut"} => last.ref # NoRef
        /\ \A T \in Types :
            /\ ~Provides("Has", EmpContext, T)
            /\ ~Provides("Pop", EmpContext, T)
            /\ Provides("Push", EmpContext, T)
            /\ Provides("Push", TypeOf(ctx), T)
            /\ Provides("Has", TypeOf(ctx), T)
                => /\ Get(ctx, T) \in 1..Depth(ctx)
                   /\ Slots(ctx)[Get(ctx, T)].ty = T
                   /\ GetMut(ctx, T) \in 1..Depth(ctx)
                   /\ Slots(ctx)[GetMut(ctx, T)].ty = T
                   /\ \A v \in ValsOf(T) : WellFormed(Set(ctx, T, v))
            /\ Provides("Pop", TypeOf(ctx), T)
                => /\ Pop(ctx, T)[1] # NoVal
                   /\ WellFormed(Pop(ctx, T)[2])
                   /\ WellFormed(PopResult(TypeOf(ctx), T))

\* A get that went through three heads to the innermost slot.
NoRuntimeFailureWitness ==
    /\ last.op = "get"
    /\ pc = "run"
    /\ Depth(ctx) = 4
    /\ last.ref = 4

\* What holds at each stage of the chain of send_request.
StageChainInv ==
    /\ pc = "middle"
        => /\ ctx = Node(Item("ContextItem1", Unit), EmpContext)
           /\ Provides("Pop", TypeOf(ctx), "ContextItem1")
           /\ resp = "none"
    /\ pc = "inner"
        => /\ ctx = Node(Item("ContextItem2", Unit), EmpContext)
           /\ IdxOf(Slots(ctx), "ContextItem1") = {}
           /\ Provides("Has", TypeOf(ctx), "ContextItem2")
           /\ resp = "none"
    /\ pc = "done"
        => /\ last.op = "get"
           /\ last.ty = "ContextItem2"
           /\ last.ref = 1
           /\ last.val = Unit
           /\ resp = "ok"

\* The stages follow one another: outer, middle, inner, done.
StageOrder ==
    /\ pc' = "middle" => pc \in {"run", "done"}
    /\ pc' = "inner" => pc = "middle"
    /\ pc' = "done" => pc = "inner"
    /\ pc = "middle" => pc' = "inner"
    /\ pc = "inner" => pc' = "done"

\* C6: the stage chain of the test.  Every request passes outer, middle and
\* inner in that order; the middle stage is handed exactly ContextItem1, the
\* inner stage exactly ContextItem2; the inner get finds ContextItem2 and
\* every call that was made completes with an Ok response.
StageChain ==
    /\ []StageChainInv
    /\ [][StageOrder]_vars
    /\ (pc = "middle") ~> (pc = "done" /\ resp = "ok")

\* A request that went through the three stages.
StageChainWitness ==
    /\ pc = "done"
    /\ resp = "ok"
    /\ last.op = "get"
    /\ ctx = Node(Item("ContextItem2", Unit), EmpContext)

\* C7: make_context! and make_context_ty! list the items outermost first.
\* The container make_context! built holds v1 as its outermost head down to
\* vn above the empty context (the empty context alone for no value), with
\* or without a trailing comma, and its type is the one make_context_ty!
\* names for the types of v1, ..., vn.
MakeContextOrder ==
    last.op = "make" =>
        /\ Slots(ctx) = last.args
        /\ last.args = <<>> => ctx = EmpContext
        /\ ctx = MakeContext(last.args, ~last.trailing)
        /\ \A t \in BOOLEAN :
            TypeOf(ctx)
              = MakeContextTy([i \in DOMAIN last.args |-> last.args[i].ty], t)

\* A make_context! of three values of different types, written with a
\* trailing comma.
MakeContextOrderWitness ==
    /\ last.op = "make"
    /\ last.trailing
    /\ Len(last.args) = 3
    /\ ctx.head = Item("XSpanIdString", 1)
    /\ ctx.tail.tail.head = Item("ContextItem1", Unit)

\* C8: set, get and get_mut resolve to the same slot, the outermost of type
\* T.  A set replaced the value of that slot and nothing else (shape, depth,
\* every other slot, the shadowed slots of type T); get and get_mut refer to
\* that slot and change nothing.
SetGetSameSlot ==
    /\ last.op = "set"
        => LET s == Slots(last.pre)
               k == FirstIdx(s, last.ty)
           IN  /\ IdxOf(s, last.ty) # {}
               /\ Slots(ctx) = [s EXCEPT ![k] = Item(last.ty, last.val)]
               /\ TypeOf(ctx) = TypeOf(last.pre)
               /\ Get(ctx, last.ty) = k
               /\ GetMut(ctx, last.ty) = k
               /\ Deref(ctx, Get(ctx, last.ty)) = last.val
    /\ last.op \in {"get", "get_mut"}
        => /\ ctx = last.pre
           /\ IdxOf(Slots(ctx), last.ty) # {}
           /\ last.ref = FirstIdx(Slots(ctx), last.ty)
           /\ last.val = Slots(ctx)[last.ref].val

\* A set of the outer XSpanIdString slot to a new value, beneath another
\* head and above an older XSpanIdString slot.
SetGetSameSlotWitness ==
    /\ last.op = "set"
    /\ last.ty = "XSpanIdString"
    /\ last.val = 1
    /\ Depth(ctx) = 4
    /\ IdxOf(Slots(ctx), "XSpanIdString") = {2, 4}
    /\ Slots(last.pre)[2].val = 0
    /\ Slots(ctx)[4].val = 0

\* How many times an impl was emitted.
Emitted(im) == Cardinality({i \in DOMAIN impls : impls[i] = im})

\* The expansion steps left for an invocation, and for the pending ones.
Weight(inv) ==
    IF inv.rule = "new_context_type" THEN 2 * Len(inv.types)
    ELSE IF inv.rule = "extend_has" THEN 2 * Len(inv.types) - 1
    ELSE 1

RECURSIVE Measure(_)
Measure(p) == IF p = <<>> THEN 0 ELSE Weight(Head(p)) + Measure(Tail(p))

\* Some arm of new_context_type! matches the invocation to expand.
ArmMatches ==
    /\ pending # <<>>
    /\ \/ Head(pending).rule \in {"new_context_type", "extend_has"}
          /\ Len(Head(pending).types) >= 1
       \/ Head(pending).rule = "extend_has_helper"
          /\ Len(Head(pending).types) >= 2

\* The impls of a finished expansion.
Matrix ==
    /\ \A a \in Types \cup Generic, b \in Types \cup Generic :
       \A tr \in {"Has", "Pop"} :
          Emitted(ImplRec(tr, "node", a, b, TRUE))
            = IF a \in DeclSet /\ b \in DeclSet /\ a # b THEN 1 ELSE 0
    /\ \A k \in DOMAIN BaseImpls : Emitted(BaseImpls[k]) = 1
    /\ Len(impls) = Len(BaseImpls) + 2 * Len(decl) * (Len(decl) - 1)

\* C9: capability-matrix generation.  For N >= 1 distinct types the
\* expansion terminates (an arm always matches and every step brings it
\* nearer to its end) and has emitted the direct impls once and, for every
\* ordered pair of distinct declared types, exactly one Has and one Pop
\* propagation impl; none for a pair of equal types, none twice.
MatrixGeneration ==
    /\ [](pc = "expand" => ArmMatches)
    /\ [][pc = "expand" => Measure(pending') < Measure(pending)]_vars
    /\ [](pc # "expand" => (pending = <<>> /\ Matrix))

\* The expansion for three types has ended.
MatrixGenerationWitness ==
    /\ pc = "run"
    /\ Len(decl) = 3
    /\ pending = <<>>
    /\ Len(impls) = 16

====
